---------------------------- MODULE Spec2Model ----------------------------
(***************************************************************************)
(* Model of the quote line-item engine of src/app.py (a Streamlit script). *)
(*                                                                         *)
(* The session state of the script is the state of the model.  One action  *)
(* is one user event: the script run that handles the event, together with *)
(* the reruns (st.rerun) it triggers, up to the run that ends without one. *)
(*                                                                         *)
(* Conventions                                                             *)
(*   - a data frame is a sequence of rows, a row a record of its columns;  *)
(*     row labels of the code are 0-based, so label i is element i+1;      *)
(*   - money is an integer number of cents, a percentage an integer number *)
(*     of tenths of a percent (9.0% is 90, 99.9% is 999); quotients are    *)
(*     floored to the cent;                                                *)
(*   - NaN stands for a numeric cell that pandas holds as NaN/None;        *)
(*   - the data editor returns the frame it was given (df_for_display)     *)
(*     with the cell the user set, and forgets the edit once the frame it  *)
(*     is given changes;                                                   *)
(*   - the session comes to rest only after a run that ends without        *)
(*     st.rerun(): the grid's own write-back of coerced numeric cells      *)
(*     (Render) is part of every event.                                    *)
(*   - the extraction pass is also modelled step by step (SpecExtract,     *)
(*     SpecParse): pass holds its locals, one step per source; Process is  *)
(*     the pass as one event, given what it parsed.                        *)
(***************************************************************************)
EXTENDS Integers, Sequences, FiniteSets, TLC

VARIABLES quote_items,    \* st.session_state.quote_items (stored rows)
          row_order,      \* st.session_state.row_order (0-based labels)
          sort_by,        \* st.session_state.sort_by (the sort radio)
          global_margin,  \* st.session_state.global_margin
          grid_df,        \* the priced frame the grid shows (df_for_display)
          df_for_totals,  \* the priced frame of the last Quote Totals render
          final_df,       \* the priced frame of the export, <<>> when the last
                          \* run produced no document
          quote_html,     \* the document handed to the PDF renderer by the
                          \* last run (its line items and totals)
          pass,           \* the locals of the extraction pass (lines 284-386)
          last_op         \* the event handled last (history, not program state)

vars == <<quote_items, row_order, sort_by, global_margin, grid_df, df_for_totals,
          final_df, quote_html, pass, last_op>>

-----------------------------------------------------------------------------
(* Bounds of the model *)

MaxRows == 3

MaxNew == 2

\* rows of the collection in the specification of the grid's cell values
MaxEditRows == 2

\* uploaded files of one extraction pass
MaxFiles == 2

-----------------------------------------------------------------------------
(* Values *)

NaN == -1

\* a cell of a numeric column that holds a text which is not a number
Unparseable == -2

\* a text cell that pandas holds as NaN/None
NaNText == "NaN"

\* the sort keys the model uses, in Python's str ordering; sort_values puts
\* the missing keys last
StrOrder == <<"", "A", "B", "X", NaNText>>

StrRank(s) == CHOOSE i \in 1..Len(StrOrder) : StrOrder[i] = s

\* the values offered to the Global Margin number input (9.0 is its default)
GlobalMargins == {90, 200}

SortOptions == {"Manual Order", "Type", "Supplier"}

\* candidate objects of an extraction response (QTY null in the second)
ExtractPool ==
    { [TYPE |-> "B", QTY |-> 3, Supplier |-> "X", CAT_NO |-> "C1",
       Description |-> "D1", COST_PER_UNIT |-> 10000],
      [TYPE |-> "A", QTY |-> NaN, Supplier |-> "X", CAT_NO |-> "C2",
       Description |-> "D2", COST_PER_UNIT |-> 2599] }

\* the cell edits the grid offers in the model: <<column, new value>>
EditCells == { <<"DISC", 100>> }

\* cell values the grid's column_config accepts: any number for DISC (no
\* min_value/max_value), 0 to 99.9 for MARGIN, and a cleared cell (None)
GridCells == { <<"DISC", 1500>>, <<"DISC", -50>>, <<"MARGIN", 999>>,
               <<"MARGIN", NaN>> }

-----------------------------------------------------------------------------
(* Sequence helpers *)

Range0(n) == [j \in 1..n |-> j - 1]

InsertAt(s, i, x) == SubSeq(s, 1, i) \o <<x>> \o SubSeq(s, i + 1, Len(s))

RemoveAt(s, i) == SubSeq(s, 1, i) \o SubSeq(s, i + 2, Len(s))

-----------------------------------------------------------------------------
(* Ordering *)

update_row_order(items, ro) ==
    IF Len(ro) # Len(items) THEN Range0(Len(items)) ELSE ro

reorder_df(df, ro) == [j \in 1..Len(ro) |-> df[ro[j] + 1]]

\* a sort that puts a row before the rows of equal key (not stable)
RECURSIVE InsertSortedBeforeTies(_, _, _)
InsertSortedBeforeTies(sorted, r, col) ==
    IF sorted = <<>> THEN <<r>>
    ELSE IF StrRank(r[col]) <= StrRank(Head(sorted)[col])
         THEN <<r>> \o sorted
         ELSE <<Head(sorted)>> \o InsertSortedBeforeTies(Tail(sorted), r, col)

RECURSIVE InsertSorted(_, _, _)
InsertSorted(sorted, r, col) ==
    IF sorted = <<>> THEN <<r>>
    ELSE IF StrRank(r[col]) < StrRank(Head(sorted)[col])
         THEN <<r>> \o sorted
         ELSE <<Head(sorted)>> \o InsertSorted(Tail(sorted), r, col)

RECURSIVE SortPrefix(_, _, _)
SortPrefix(df, n, col) ==
    IF n = 0 THEN <<>>
    ELSE InsertSorted(SortPrefix(df, n - 1, col), df[n], col)

sort_values(df, col) == SortPrefix(df, Len(df), col)

display_df(items, ro, sort_option) ==
    IF sort_option = "Manual Order" THEN reorder_df(items, ro)
    ELSE IF sort_option = "Type" THEN sort_values(items, "TYPE")
    ELSE IF sort_option = "Supplier" THEN sort_values(items, "Supplier")
    ELSE reorder_df(items, ro)

-----------------------------------------------------------------------------
(* Pricing *)

\* a coercion that fills 1 where the value is missing
to_numeric_fillna_one(v) == IF v = NaN \/ v = Unparseable THEN 1 ELSE v

\* pd.to_numeric(..., errors='coerce').fillna(0): a text that is no number
\* becomes NaN, and NaN becomes 0
to_numeric(v) == IF v = NaN \/ v = Unparseable THEN 0 ELSE v

Coerce(row) ==
    [row EXCEPT !.QTY = to_numeric(@), !.COST_PER_UNIT = to_numeric(@),
                !.DISC = to_numeric(@), !.MARGIN = to_numeric(@)]

df_for_display(df) == [j \in 1..Len(df) |-> Coerce(df[j])]

gst_rate == 10

margin_divisor(margin) == IF 1000 - margin <= 0 THEN 10 ELSE 1000 - margin

\* the margin-as-multiplier variant of the unit price
SellUnitExGstMultiplier(row) ==
    (((row.COST_PER_UNIT * (1000 - row.DISC)) \div 1000) * (1000 + row.MARGIN))
        \div 1000

SellUnitExGst(row) ==
    (row.COST_PER_UNIT * (1000 - row.DISC)) \div margin_divisor(row.MARGIN)

PriceRow(row) ==
    LET r     == Coerce(row)
        unit  == SellUnitExGst(r)
        total == unit * r.QTY
        gst   == (total * gst_rate) \div 100
    IN  [TYPE |-> r.TYPE, QTY |-> r.QTY, Supplier |-> r.Supplier,
         CAT_NO |-> r.CAT_NO, Description |-> r.Description,
         COST_PER_UNIT |-> r.COST_PER_UNIT, DISC |-> r.DISC, MARGIN |-> r.MARGIN,
         SELL_UNIT_EX_GST |-> unit, SELL_TOTAL_EX_GST |-> total,
         GST_AMOUNT |-> gst, SELL_TOTAL_INC_GST |-> total + gst]

Totals(items, ro) ==
    IF items = <<>> THEN <<>>
    ELSE LET df == reorder_df(items, ro)
         IN  [j \in 1..Len(df) |-> PriceRow(df[j])]

\* a grid pricing that leaves the discount out of the unit price
GridPriceRowNoDiscount(row) ==
    LET r    == Coerce(row)
        unit == (r.COST_PER_UNIT * 1000) \div (IF 1000 - r.MARGIN <= 0 THEN 10
                                                ELSE 1000 - r.MARGIN)
    IN  [TYPE |-> r.TYPE, QTY |-> r.QTY, Supplier |-> r.Supplier,
         CAT_NO |-> r.CAT_NO, Description |-> r.Description,
         COST_PER_UNIT |-> r.COST_PER_UNIT, DISC |-> r.DISC, MARGIN |-> r.MARGIN,
         SELL_UNIT_EX_GST |-> unit, SELL_TOTAL_EX_GST |-> unit * r.QTY]

\* the grid's own pricing of the frame it shows (lines 421-428)
grid_margin_divisor(margin) == IF 1000 - margin <= 0 THEN 10 ELSE 1000 - margin

GridPriceRow(row) ==
    LET r    == Coerce(row)
        unit == (r.COST_PER_UNIT * (1000 - r.DISC)) \div grid_margin_divisor(r.MARGIN)
    IN  [TYPE |-> r.TYPE, QTY |-> r.QTY, Supplier |-> r.Supplier,
         CAT_NO |-> r.CAT_NO, Description |-> r.Description,
         COST_PER_UNIT |-> r.COST_PER_UNIT, DISC |-> r.DISC, MARGIN |-> r.MARGIN,
         SELL_UNIT_EX_GST |-> unit, SELL_TOTAL_EX_GST |-> unit * r.QTY]

GridFrame(items, ro, sort_option) ==
    IF items = <<>> THEN <<>>
    ELSE LET df == display_df(items, ro, sort_option)
         IN  [j \in 1..Len(df) |-> GridPriceRow(df[j])]

\* a clamp of the export's divisor to 1 (no margin) in place of 0.01
final_margin_divisor_to_one(margin) ==
    IF 1000 - margin <= 0 THEN 1000 ELSE 1000 - margin

\* the export's own pricing of the manual order (lines 544-554)
final_margin_divisor(margin) == IF 1000 - margin <= 0 THEN 10 ELSE 1000 - margin

FinalPriceRow(row) ==
    LET r     == Coerce(row)
        unit  == (r.COST_PER_UNIT * (1000 - r.DISC)) \div final_margin_divisor(r.MARGIN)
        total == unit * r.QTY
        gst   == (total * gst_rate) \div 100
    IN  [TYPE |-> r.TYPE, QTY |-> r.QTY, Supplier |-> r.Supplier,
         CAT_NO |-> r.CAT_NO, Description |-> r.Description,
         COST_PER_UNIT |-> r.COST_PER_UNIT, DISC |-> r.DISC, MARGIN |-> r.MARGIN,
         SELL_UNIT_EX_GST |-> unit, SELL_TOTAL_EX_GST |-> total,
         GST_AMOUNT |-> gst, SELL_TOTAL_INC_GST |-> total + gst]

\* an export of the rows in the order the grid shows them
FinalFrameAsShown(items, ro) ==
    LET df == display_df(items, ro, sort_by)
    IN  [j \in 1..Len(df) |-> FinalPriceRow(df[j])]

FinalFrame(items, ro) ==
    LET df == reorder_df(items, ro)
    IN  [j \in 1..Len(df) |-> FinalPriceRow(df[j])]

-----------------------------------------------------------------------------
(* The document *)

\* format_currency (lines 111-114): "$", the sign, the dollars (grouped in
\* thousands) and two decimals; NaN and None give "$0.00"
format_currency(num) ==
    IF num = NaN THEN [negative |-> FALSE, dollars |-> 0, cents |-> 0]
    ELSE LET abs == IF num < 0 THEN 0 - num ELSE num
         IN  [negative |-> num < 0, dollars |-> abs \div 100, cents |-> abs % 100]

RECURSIVE column_sum(_, _)
column_sum(df, col) ==
    IF df = <<>> THEN 0 ELSE Head(df)[col] + column_sum(Tail(df), col)

\* table rows that also show the line price
items_html_with_price(df) ==
    [j \in 1..Len(df) |->
        [no |-> (j - 1) + 1, TYPE |-> df[j].TYPE, QTY |-> df[j].QTY,
         Supplier |-> df[j].Supplier, CAT_NO |-> df[j].CAT_NO,
         Description |-> df[j].Description,
         SELL_TOTAL_EX_GST |-> df[j].SELL_TOTAL_EX_GST]]

\* items_html (lines 560-577): one table row per row of final_df, label i of
\* iterrows() shown as i + 1
items_html(df) ==
    [j \in 1..Len(df) |->
        [no |-> (j - 1) + 1, TYPE |-> df[j].TYPE, QTY |-> df[j].QTY,
         Supplier |-> df[j].Supplier, CAT_NO |-> df[j].CAT_NO,
         Description |-> df[j].Description]]

\* quote_html (lines 556-658) as far as it depends on the line items: the
\* table rows and the three totals of the footer
render_quote_html(df) ==
    [rendered |-> TRUE,
     items |-> items_html(df),
     pdf_subtotal |-> format_currency(column_sum(df, "SELL_TOTAL_EX_GST")),
     pdf_gst |-> format_currency(column_sum(df, "GST_AMOUNT")),
     pdf_grand_total |-> format_currency(column_sum(df, "SELL_TOTAL_INC_GST"))]

\* the run handed no document to the renderer
NoDocument ==
    [rendered |-> FALSE, items |-> <<>>, pdf_subtotal |-> format_currency(0),
     pdf_gst |-> format_currency(0), pdf_grand_total |-> format_currency(0)]

-----------------------------------------------------------------------------
(* The grid and the rerun *)

\* a write-back that resets row_order under a sort even without an edit
WriteBackResetsOrder(items, ro, sort_option, edited_df) ==
    IF display_df(items, ro, sort_option) = edited_df
    THEN [quote_items |-> items,
          row_order |-> IF sort_option = "Manual Order" THEN ro
                        ELSE Range0(Len(items)),
          rerun |-> FALSE]
    ELSE [quote_items |-> edited_df,
          row_order |-> IF sort_option = "Manual Order" THEN ro
                        ELSE Range0(Len(edited_df)),
          rerun |-> TRUE]

\* a write-back that keeps row_order whatever the sort option
WriteBackKeepsOrder(items, ro, sort_option, edited_df) ==
    IF display_df(items, ro, sort_option) = edited_df
    THEN [quote_items |-> items, row_order |-> ro, rerun |-> FALSE]
    ELSE [quote_items |-> edited_df, row_order |-> ro, rerun |-> TRUE]

WriteBack(items, ro, sort_option, edited_df) ==
    IF display_df(items, ro, sort_option) = edited_df
    THEN [quote_items |-> items, row_order |-> ro, rerun |-> FALSE]
    ELSE [quote_items |-> edited_df,
          row_order |-> IF sort_option = "Manual Order" THEN ro
                        ELSE Range0(Len(edited_df)),
          rerun |-> TRUE]

RECURSIVE Render(_, _, _)
Render(items, ro, sort_option) ==
    IF items = <<>> THEN [quote_items |-> items, row_order |-> ro]
    ELSE LET ro1 == update_row_order(items, ro)
             wb  == WriteBack(items, ro1, sort_option,
                              df_for_display(display_df(items, ro1, sort_option)))
         IN  IF wb.rerun THEN Render(wb.quote_items, wb.row_order, sort_option)
             ELSE [quote_items |-> wb.quote_items, row_order |-> wb.row_order]

\* row_options (line 459) slices the Description of every row: the run ends
\* there with a TypeError when a Description is None
row_options_raises(items, ro) ==
    /\ items # <<>>
    /\ Len(ro) = Len(items)
    /\ \E j \in 1..Len(ro) : reorder_df(items, ro)[j].Description = NaNText

\* the session in which the script comes to rest after a handler called
\* st.rerun(): the last run renders the grid and the totals, and no document;
\* a run that ends at line 459 renders the grid only
Rest(items, ro, sort_option, gm, op) ==
    \E st \in {Render(items, ro, sort_option)} :
        /\ quote_items' = st.quote_items
        /\ row_order' = st.row_order
        /\ sort_by' = sort_option
        /\ global_margin' = gm
        /\ grid_df' = GridFrame(st.quote_items, st.row_order, sort_option)
        /\ df_for_totals' = IF row_options_raises(st.quote_items, st.row_order)
                            THEN <<>>
                            ELSE Totals(st.quote_items, st.row_order)
        /\ final_df' = <<>>
        /\ quote_html' = NoDocument
        /\ last_op' = op

\* the same for an event other than the extraction pass
Settle(items, ro, sort_option, gm, op) ==
    /\ Rest(items, ro, sort_option, gm, op)
    /\ UNCHANGED pass

-----------------------------------------------------------------------------
(* Handlers: each yields the session state it leaves before st.rerun() *)

new_row(gm) ==
    [TYPE |-> "", QTY |-> 1, Supplier |-> "", CAT_NO |-> "", Description |-> "",
     COST_PER_UNIT |-> 0, DISC |-> 0, MARGIN |-> gm]

\* an insert that takes the selected position for the stored label
add_above_at_position(items, ro, gm, selected_index) ==
    LET idx        == selected_index
        updated_df == SubSeq(items, 1, idx) \o <<new_row(gm)>>
                      \o SubSeq(items, idx + 1, Len(items))
    IN  [quote_items |-> updated_df,
         row_order |-> InsertAt(ro, selected_index, Len(updated_df) - 1)]

add_above(items, ro, gm, selected_index) ==
    LET idx        == ro[selected_index + 1]
        updated_df == SubSeq(items, 1, idx) \o <<new_row(gm)>>
                      \o SubSeq(items, idx + 1, Len(items))
    IN  [quote_items |-> updated_df,
         row_order |-> InsertAt(ro, selected_index, Len(updated_df) - 1)]

\* an insert that puts the label of the selected row into row_order again
add_below_repeats_label(items, ro, gm, selected_index) ==
    LET idx        == ro[selected_index + 1]
        updated_df == SubSeq(items, 1, idx + 1) \o <<new_row(gm)>>
                      \o SubSeq(items, idx + 2, Len(items))
    IN  [quote_items |-> updated_df,
         row_order |-> InsertAt(ro, selected_index + 1, idx)]

add_below(items, ro, gm, selected_index) ==
    LET idx        == ro[selected_index + 1]
        updated_df == SubSeq(items, 1, idx + 1) \o <<new_row(gm)>>
                      \o SubSeq(items, idx + 2, Len(items))
    IN  [quote_items |-> updated_df,
         row_order |-> InsertAt(ro, selected_index + 1, Len(updated_df) - 1)]

\* a delete that drops the stored row at the selected position
delete_row_at_position(items, ro, selected_index) ==
    LET idx    == ro[selected_index + 1]
        popped == RemoveAt(ro, selected_index)
    IN  [quote_items |-> RemoveAt(items, selected_index),
         row_order |-> [j \in 1..Len(popped) |->
                          IF popped[j] < idx THEN popped[j] ELSE popped[j] - 1]]

delete_row(items, ro, selected_index) ==
    LET idx    == ro[selected_index + 1]
        popped == RemoveAt(ro, selected_index)
    IN  [quote_items |-> RemoveAt(items, idx),
         row_order |-> [j \in 1..Len(popped) |->
                          IF popped[j] < idx THEN popped[j] ELSE popped[j] - 1]]

Swap(ro, i, j) == [ro EXCEPT ![i + 1] = ro[j + 1], ![j + 1] = ro[i + 1]]

\* a move up without the boundary test (index -1 is the last element)
move_up_unguarded(ro, selected_index) ==
    IF selected_index > 0 THEN Swap(ro, selected_index - 1, selected_index)
    ELSE Swap(ro, Len(ro) - 1, selected_index)

move_up(ro, selected_index) ==
    IF selected_index > 0 THEN Swap(ro, selected_index - 1, selected_index) ELSE ro

move_down(ro, selected_index) ==
    IF selected_index < Len(ro) - 1
    THEN Swap(ro, selected_index + 1, selected_index) ELSE ro

\* an Apply Margin that reaches the first stored row only
apply_margin_first_row(items, gm) ==
    [j \in 1..Len(items) |-> IF j = 1 THEN [items[j] EXCEPT !.MARGIN = gm]
                                      ELSE items[j]]

apply_margin(items, gm) == [j \in 1..Len(items) |-> [items[j] EXCEPT !.MARGIN = gm]]

\* the columns of the empty frame the session starts with (lines 142-145)
quote_columns ==
    {"TYPE", "QTY", "Supplier", "CAT_NO", "Description", "COST_PER_UNIT", "DISC",
     "MARGIN"}

\* the columns the pricing coerces to numbers
NumericColumns == {"QTY", "COST_PER_UNIT", "DISC", "MARGIN"}

\* the cell pandas puts where a row has no value for a column
Missing(col) == IF col \in NumericColumns THEN NaN ELSE NaNText

\* the keys of a list of records: the columns of the frame made of them
ColumnsOf(list) == UNION {DOMAIN list[j] : j \in 1..Len(list)}

\* the rows laid out on the columns cols; a row without a column gets NaN
reindex(df, cols) ==
    [j \in 1..Len(df) |->
        [c \in cols |-> IF c \in DOMAIN df[j] THEN df[j][c] ELSE Missing(c)]]

\* pd.concat([a, b], ignore_index=True): the rows of both on the union of the
\* columns; the frame of the session always has the columns it started with
pd_concat(a, b) ==
    LET cols == quote_columns \cup ColumnsOf(a) \cup ColumnsOf(b)
    IN  reindex(a, cols) \o reindex(b, cols)

\* a stamp of the widget's default margin (9.0) in place of the session value
new_df_default_margin(all_new_items, gm) ==
    LET frame == reindex(all_new_items, ColumnsOf(all_new_items))
    IN  [j \in 1..Len(frame) |->
            [c \in DOMAIN frame[j] \cup {"DISC", "MARGIN"} |->
                IF c = "DISC" THEN 0
                ELSE IF c = "MARGIN" THEN 90
                ELSE frame[j][c]]]

\* new_df of the extraction pass: pd.DataFrame(all_new_items), one column per
\* key of the parsed objects, with DISC and MARGIN stamped
new_df(all_new_items, gm) ==
    LET frame == reindex(all_new_items, ColumnsOf(all_new_items))
    IN  [j \in 1..Len(frame) |->
            [c \in DOMAIN frame[j] \cup {"DISC", "MARGIN"} |->
                IF c = "DISC" THEN 0
                ELSE IF c = "MARGIN" THEN gm
                ELSE frame[j][c]]]

append_new_items(items, ro, gm, all_new_items) ==
    IF all_new_items = <<>> THEN [quote_items |-> items, row_order |-> ro]
    ELSE LET concat == pd_concat(items, new_df(all_new_items, gm))
             ro1    == update_row_order(concat, ro)
         IN  [quote_items |-> concat,
              row_order |-> ro1 \o [j \in 1..(Len(concat) - Len(ro1)) |->
                                      Len(ro1) + j - 1]]

-----------------------------------------------------------------------------
(* The extraction pass                                                       *)
(*                                                                           *)
(* A response text is a sequence of tokens: "FENCE_JSON" (three backticks    *)
(* and the word json), "FENCE" (three backticks),                            *)
(* "[", "]", ",", an object literal "o1" or "o2" (an object of the schema,   *)
(* braces included), " " (white space or a newline) and "x" (prose without   *)
(* brackets, braces or backticks).  The texts of the model hold no bare      *)
(* object and no scalar, so a text is JSON exactly when it is one array of   *)
(* objects.                                                                  *)

ObjectTokens == {"o1", "o2"}

\* the object an object literal denotes
ObjectOf(tok) ==
    CHOOSE o \in ExtractPool : o.CAT_NO = (IF tok = "o1" THEN "C1" ELSE "C2")

Min(S) == CHOOSE x \in S : \A y \in S : x <= y

Max(S) == CHOOSE x \in S : \A y \in S : x >= y

\* str.lstrip()
LStrip(text) ==
    LET solid == {k \in 1..Len(text) : text[k] # " "}
    IN  IF solid = {} THEN <<>> ELSE SubSeq(text, Min(solid), Len(text))

\* str.strip()
Strip(text) ==
    LET solid == {k \in 1..Len(text) : text[k] # " "}
    IN  IF solid = {} THEN <<>> ELSE SubSeq(text, Min(solid), Max(solid))

\* json.loads: ok is FALSE where it raises json.JSONDecodeError
json_loads(text) ==
    LET ts    == SelectSeq(text, LAMBDA t : t # " ")
        n     == Len(ts)
        inner == SubSeq(ts, 2, n - 1)
        ok    == /\ n >= 2
                 /\ ts[1] = "[" /\ ts[n] = "]"
                 /\ \/ inner = <<>>
                    \/ /\ Len(inner) % 2 = 1
                       /\ \A k \in 1..Len(inner) :
                              IF k % 2 = 1 THEN inner[k] \in ObjectTokens
                                           ELSE inner[k] = ","
    IN  [ok |-> ok,
         value |-> IF ok THEN [k \in 1..((Len(inner) + 1) \div 2) |->
                                 ObjectOf(inner[2 * k - 1])]
                         ELSE <<>>]

\* a search that hands back the whole match, fences included (group(0))
re_search_whole_match(text) ==
    LET opens == {k \in 1..Len(text) : text[k] = "FENCE_JSON"}
    IN  IF opens = {} THEN [found |-> FALSE, group1 |-> <<>>]
        ELSE LET a      == Min(opens)
                 closes == {k \in (a + 1)..Len(text) : text[k] \in {"FENCE", "FENCE_JSON"}}
             IN  IF closes = {} THEN [found |-> FALSE, group1 |-> <<>>]
                 ELSE [found |-> TRUE, group1 |-> SubSeq(text, a, Max(closes))]

\* re.search of line 326 (fence, json, \s*, a greedy (.*) under re.DOTALL,
\* \s*, fence): the leftmost "FENCE_JSON", and for the greedy group the last
\* three backticks behind it (which may be the head of a later "FENCE_JSON");
\* group(1) starts behind the white space after the opener
re_search(text) ==
    LET opens == {k \in 1..Len(text) : text[k] = "FENCE_JSON"}
    IN  IF opens = {} THEN [found |-> FALSE, group1 |-> <<>>]
        ELSE LET a      == Min(opens)
                 closes == {k \in (a + 1)..Len(text) : text[k] \in {"FENCE", "FENCE_JSON"}}
             IN  IF closes = {} THEN [found |-> FALSE, group1 |-> <<>>]
                 ELSE [found |-> TRUE,
                       group1 |-> LStrip(SubSeq(text, a + 1, Max(closes) - 1))]

\* the parse of one response (lines 321-339 for a file, 352-368 for the pasted
\* text): extracted_data (<<>> for None as for []), whether the source is put
\* on failed_files, and the parse stages gone through
parse_response(response_text) ==
    LET direct == json_loads(response_text)
    IN  IF direct.ok
        THEN [extracted_data |-> direct.value, failed |-> FALSE,
              stages |-> <<"direct">>]
        ELSE LET match == re_search(response_text)
             IN  IF match.found
                 THEN LET json_str == Strip(match.group1)
                          cleaned  == json_loads(json_str)
                      IN  IF cleaned.ok
                          THEN [extracted_data |-> cleaned.value, failed |-> FALSE,
                                stages |-> <<"direct", "fenced">>]
                          ELSE [extracted_data |-> <<>>, failed |-> TRUE,
                                stages |-> <<"direct", "fenced">>]
                 ELSE [extracted_data |-> <<>>, failed |-> TRUE,
                       stages |-> <<"direct", "fenced">>]

\* a turn that lets the error of the service call escape: the run ends there
process_file_uncaught(p, file) ==
    LET called == [p EXCEPT !.calls[p.i] = @ + 1, !.i = @ + 1]
    IN  IF file.reply.raises
        THEN [called EXCEPT !.status = "crashed", !.stages = <<>>]
        ELSE LET r == parse_response(file.reply.text)
             IN  IF r.failed
                 THEN [called EXCEPT !.failed_files = Append(@, file.name),
                                     !.stages = r.stages]
                 ELSE [called EXCEPT !.all_new_items = @ \o r.extracted_data,
                                     !.stages = r.stages]

\* a turn that keeps the objects it can find in a response it fails to parse
process_file_keeps_partial(p, file) ==
    LET called == [p EXCEPT !.calls[p.i] = @ + 1, !.i = @ + 1]
    IN  IF file.reply.raises
        THEN [called EXCEPT !.failed_files = Append(@, file.name),
                            !.stages = <<>>]
        ELSE LET r     == parse_response(file.reply.text)
                 found == SelectSeq(file.reply.text, LAMBDA t : t \in ObjectTokens)
             IN  IF r.failed
                 THEN [called EXCEPT !.failed_files = Append(@, file.name),
                                     !.all_new_items =
                                         @ \o [k \in 1..Len(found) |-> ObjectOf(found[k])],
                                     !.stages = r.stages]
                 ELSE [called EXCEPT !.all_new_items = @ \o r.extracted_data,
                                     !.stages = r.stages]

\* one turn of the loop over uploaded_files (lines 315-344) on the locals p of
\* the pass; the reply of the service either raises or is a response text
process_file(p, file) ==
    LET called == [p EXCEPT !.calls[p.i] = @ + 1, !.i = @ + 1]
    IN  IF file.reply.raises
        THEN [called EXCEPT !.failed_files = Append(@, file.name),
                            !.stages = <<>>]
        ELSE LET r == parse_response(file.reply.text)
             IN  IF r.failed
                 THEN [called EXCEPT !.failed_files = Append(@, file.name),
                                     !.stages = r.stages]
                 ELSE IF r.extracted_data # <<>>
                      THEN [called EXCEPT !.all_new_items = @ \o r.extracted_data,
                                          !.stages = r.stages]
                      ELSE [called EXCEPT !.stages = r.stages]

\* a pasted-text branch that extends all_new_items without the test of line
\* 369: after a failed parse extend(None) raises and the outer handler records
\* the source a second time
process_pasted_unguarded_extend(p, pasted_text) ==
    LET called == [p EXCEPT !.calls[p.i] = @ + 1, !.i = @ + 1]
    IN  IF pasted_text.reply.raises
        THEN [called EXCEPT !.failed_files = Append(@, "Pasted Text"),
                            !.stages = <<>>]
        ELSE LET r == parse_response(pasted_text.reply.text)
             IN  IF r.failed
                 THEN [called EXCEPT !.failed_files =
                                         Append(Append(@, "Pasted Text"), "Pasted Text"),
                                     !.stages = r.stages]
                 ELSE [called EXCEPT !.all_new_items = @ \o r.extracted_data,
                                     !.stages = r.stages]

\* the pasted text (lines 347-373)
process_pasted(p, pasted_text) ==
    LET called == [p EXCEPT !.calls[p.i] = @ + 1, !.i = @ + 1]
    IN  IF pasted_text.reply.raises
        THEN [called EXCEPT !.failed_files = Append(@, "Pasted Text"),
                            !.stages = <<>>]
        ELSE LET r == parse_response(pasted_text.reply.text)
             IN  IF r.failed
                 THEN [called EXCEPT !.failed_files = Append(@, "Pasted Text"),
                                     !.stages = r.stages]
                 ELSE IF r.extracted_data # <<>>
                      THEN [called EXCEPT !.all_new_items = @ \o r.extracted_data,
                                          !.stages = r.stages]
                      ELSE [called EXCEPT !.stages = r.stages]

\* the frame the data editor returns when the user sets one cell of the grid
edited_df(items, ro, sort_option, i, col, val) ==
    LET shown == df_for_display(display_df(items, ro, sort_option))
    IN  [shown EXCEPT ![i + 1][col] = val]

-----------------------------------------------------------------------------
\* no extraction pass is under way and none has reported
NoPass ==
    [status |-> "idle", sources |-> <<>>, i |-> 0, all_new_items |-> <<>>,
     failed_files |-> <<>>, calls |-> <<>>, stages |-> <<>>]

Init ==
    /\ quote_items = <<>>
    /\ row_order = <<>>
    /\ sort_by = "Order"
    /\ global_margin = 90
    /\ grid_df = <<>>
    /\ df_for_totals = <<>>
    /\ final_df = <<>>
    /\ quote_html = NoDocument
    /\ pass = NoPass
    /\ last_op = [op |-> "init", from |-> "Order"]

Did(name) == [op |-> name, from |-> sort_by]

-----------------------------------------------------------------------------
(* Actions: one per user event *)

\* "Process Uploaded/Pasted Files": the pass has parsed all_new_items, at
\* least one object (a pass that parsed nothing leaves the state as it is)
ProcessWith(all_new_items) ==
    /\ Len(quote_items) + Len(all_new_items) <= MaxRows
    /\ LET st == append_new_items(quote_items, row_order, global_margin,
                                  all_new_items)
       IN  Settle(st.quote_items, st.row_order, sort_by, global_margin,
                  Did("process"))

Process ==
    \E n \in 1..MaxNew : \E all_new_items \in [1..n -> ExtractPool] :
        ProcessWith(all_new_items)

\* the sort radio, shown while the collection is not empty
SelectSortTo(opt) ==
    /\ quote_items # <<>>
    /\ opt # sort_by
    /\ Settle(quote_items, row_order, opt, global_margin, Did("sort"))

SelectSort == \E opt \in SortOptions : SelectSortTo(opt)

\* the user sets one cell of the grid
GridEditAt(i, cell) ==
    /\ i \in 0..(Len(quote_items) - 1)
    /\ display_df(quote_items, row_order, sort_by)[i + 1][cell[1]] # cell[2]
    /\ LET wb == WriteBack(quote_items, row_order, sort_by,
                           edited_df(quote_items, row_order, sort_by,
                                     i, cell[1], cell[2]))
       IN  Settle(wb.quote_items, wb.row_order, sort_by, global_margin,
                  Did("edit"))

GridEdit == \E i \in 0..(MaxRows - 1), cell \in EditCells : GridEditAt(i, cell)

\* the row buttons, shown once a row of the selector is chosen
Selectable(selected_index) ==
    /\ quote_items # <<>>
    /\ ~ row_options_raises(quote_items, row_order)
    /\ selected_index \in 0..(Len(row_order) - 1)

AddAboveAt(selected_index) ==
    /\ Selectable(selected_index)
    /\ Len(quote_items) < MaxRows
    /\ LET st == add_above(quote_items, row_order, global_margin, selected_index)
       IN  Settle(st.quote_items, st.row_order, sort_by, global_margin,
                  Did("add_above"))

AddAbove == \E selected_index \in 0..(MaxRows - 1) : AddAboveAt(selected_index)

AddBelowAt(selected_index) ==
    /\ Selectable(selected_index)
    /\ Len(quote_items) < MaxRows
    /\ LET st == add_below(quote_items, row_order, global_margin, selected_index)
       IN  Settle(st.quote_items, st.row_order, sort_by, global_margin,
                  Did("add_below"))

AddBelow == \E selected_index \in 0..(MaxRows - 1) : AddBelowAt(selected_index)

DeleteRowAt(selected_index) ==
    /\ Selectable(selected_index)
    /\ LET st == delete_row(quote_items, row_order, selected_index)
       IN  Settle(st.quote_items, st.row_order, sort_by, global_margin,
                  Did("delete_row"))

DeleteRow == \E selected_index \in 0..(MaxRows - 1) : DeleteRowAt(selected_index)

MoveUpAt(selected_index) ==
    /\ Selectable(selected_index)
    /\ Settle(quote_items, move_up(row_order, selected_index), sort_by,
              global_margin, Did("move_up"))

MoveUp == \E selected_index \in 0..(MaxRows - 1) : MoveUpAt(selected_index)

MoveDownAt(selected_index) ==
    /\ Selectable(selected_index)
    /\ Settle(quote_items, move_down(row_order, selected_index), sort_by,
              global_margin, Did("move_down"))

MoveDown == \E selected_index \in 0..(MaxRows - 1) : MoveDownAt(selected_index)

\* "Apply Margin" submits the details form with the Global Margin input at gm
ApplyMargin ==
    \E gm \in GlobalMargins :
        Settle(apply_margin(quote_items, gm), row_order, sort_by, gm,
               Did("apply_margin"))

\* "Clear All Items" submits the same form
ClearAll ==
    \E gm \in GlobalMargins :
        Settle(<<>>, <<>>, sort_by, gm, Did("clear_all"))

\* "Generate Final Quote PDF": the run that handles the submit prices the
\* manual order for the document, unless the grid's write-back reruns the
\* script first (the submit is then lost)
Generate ==
    /\ quote_items # <<>>
    /\ ~ row_options_raises(quote_items, row_order)
    /\ LET ro1 == update_row_order(quote_items, row_order)
           wb  == WriteBack(quote_items, ro1, sort_by,
                            df_for_display(display_df(quote_items, ro1, sort_by)))
       IN  IF wb.rerun
           THEN Settle(wb.quote_items, wb.row_order, sort_by, global_margin,
                       Did("generate"))
           ELSE /\ quote_items' = quote_items
                /\ row_order' = ro1
                /\ grid_df' = GridFrame(quote_items, ro1, sort_by)
                /\ df_for_totals' = Totals(quote_items, ro1)
                /\ final_df' = FinalFrame(quote_items, ro1)
                /\ quote_html' = render_quote_html(FinalFrame(quote_items, ro1))
                /\ last_op' = Did("generate")
                /\ UNCHANGED <<sort_by, global_margin, pass>>

Next ==
    \/ Process
    \/ MoveUp
    \/ MoveDown
    \/ SelectSort
    \/ GridEdit
    \/ DeleteRow
    \/ AddAbove
    \/ AddBelow
    \/ ApplyMargin
    \/ ClearAll
    \/ Generate

Spec == Init /\ [][Next]_vars

-----------------------------------------------------------------------------
(* The pricing calculator on its own: one row of bounded inputs is priced  *)
(* by a script run without an event.                                       *)

PricingCosts == {0, 2599, 10000}

PricingDiscounts == {0, 100, 125, 999}

PricingMargins == {0, 90, 200, 999, 1000, 1500}

PricingQtys == {NaN, 0, 1, 3}

InitPricing ==
    /\ \E c \in PricingCosts, d \in PricingDiscounts,
          m \in PricingMargins, q \in PricingQtys :
          quote_items = << [TYPE |-> "A", QTY |-> q, Supplier |-> "X",
                            CAT_NO |-> "C1", Description |-> "D1",
                            COST_PER_UNIT |-> c, DISC |-> d, MARGIN |-> m] >>
    /\ row_order = <<0>>
    /\ sort_by = "Manual Order"
    /\ global_margin = 90
    /\ grid_df = <<>>
    /\ df_for_totals = <<>>
    /\ final_df = <<>>
    /\ quote_html = NoDocument
    /\ pass = NoPass
    /\ last_op = [op |-> "init", from |-> "Manual Order"]

Rerun == Settle(quote_items, row_order, sort_by, global_margin, Did("rerun"))

NextPricing ==
    \/ Rerun
    \/ Generate

SpecPricing == InitPricing /\ [][NextPricing]_vars

-----------------------------------------------------------------------------
(* The extraction pass step by step: the button starts a pass over the       *)
(* uploaded files and the pasted text, each source is called and parsed in   *)
(* turn, and the end of the pass appends what was parsed and reruns.         *)

Text(t) == [raises |-> FALSE, text |-> t]

\* what the service answers for one source: it raises, or it returns a text
Replies ==
    { [raises |-> TRUE, text |-> <<>>],
      Text(<<"[", "o1", "]">>),
      Text(<<"FENCE_JSON", " ", "[", "o2", "]", " ", "FENCE">>),
      Text(<<"x", "[", "o1", "]">>),
      Text(<<"[", "]">>) }

FileNames == <<"a.pdf", "b.txt", "c.pdf">>

\* st.file_uploader: the files in upload order, each with the reply it will get
uploaded_files(replies) ==
    [k \in 1..Len(replies) |->
        [name |-> FileNames[k], kind |-> "file", reply |-> replies[k]]]

\* st.text_area: no source while the text is blank
PastedTexts ==
    {<<>>} \cup {<<[name |-> "Pasted Text", kind |-> "pasted", reply |-> r]>> :
                   r \in Replies}

\* the object literals in the replies of the sources
RECURSIVE Yield(_)
Yield(sources) ==
    IF sources = <<>> THEN 0
    ELSE Cardinality({k \in 1..Len(Head(sources).reply.text) :
                        Head(sources).reply.text[k] \in ObjectTokens})
         + Yield(Tail(sources))

\* "Process Uploaded/Pasted Files" (lines 284-287): the locals of the pass
StartPassWith(sources) ==
    /\ pass.status # "running"
    /\ sources # <<>>
    /\ Len(quote_items) + Yield(sources) <= MaxRows
    /\ pass' = [status |-> "running", sources |-> sources, i |-> 1,
                all_new_items |-> <<>>, failed_files |-> <<>>,
                calls |-> [k \in 1..Len(sources) |-> 0], stages |-> <<>>]
    /\ UNCHANGED <<quote_items, row_order, sort_by, global_margin, grid_df,
                   df_for_totals, final_df, quote_html, last_op>>

StartPass ==
    \E n \in 0..MaxFiles : \E replies \in [1..n -> Replies] :
        \E pasted \in PastedTexts :
            StartPassWith(uploaded_files(replies) \o pasted)

ProcessFile ==
    /\ pass.status = "running"
    /\ pass.i <= Len(pass.sources)
    /\ pass.sources[pass.i].kind = "file"
    /\ pass' = process_file(pass, pass.sources[pass.i])
    /\ UNCHANGED <<quote_items, row_order, sort_by, global_margin, grid_df,
                   df_for_totals, final_df, quote_html, last_op>>

ProcessPasted ==
    /\ pass.status = "running"
    /\ pass.i <= Len(pass.sources)
    /\ pass.sources[pass.i].kind = "pasted"
    /\ pass' = process_pasted(pass, pass.sources[pass.i])
    /\ UNCHANGED <<quote_items, row_order, sort_by, global_margin, grid_df,
                   df_for_totals, final_df, quote_html, last_op>>

\* the end of the pass (lines 375-386)
FinishPass ==
    /\ pass.status = "running"
    /\ pass.i > Len(pass.sources)
    /\ LET st == append_new_items(quote_items, row_order, global_margin,
                                  pass.all_new_items)
       IN  Rest(st.quote_items, st.row_order, sort_by, global_margin,
                Did("process"))
    /\ pass' = [pass EXCEPT !.status = "done"]

NextExtract ==
    \/ StartPass
    \/ ProcessFile
    \/ ProcessPasted
    \/ FinishPass

SpecExtract == Init /\ [][NextExtract]_vars

-----------------------------------------------------------------------------
(* The parser on its own: a pass is about to process its one source, whose   *)
(* response text is put together from bounded parts.                         *)

Prefixes == {<<>>, <<"x">>, <<" ">>}

Openers == {<<>>, <<"FENCE_JSON">>, <<"FENCE">>}

Gaps == {<<>>, <<" ">>}

Bodies ==
    { <<"[", "]">>,
      <<"[", "o1", "]">>,
      <<"[", "o1", ",", "o2", "]">>,
      <<"[", " ", "o2", ",", " ", "o1", " ", "]">>,
      <<"[", "o1">>,
      <<"[", "o1", ",", "]">>,
      <<"[", "o1", "o2", "]">>,
      <<"x">>,
      <<"[", "o1", "]", "FENCE", "x", "FENCE_JSON", "[", "o2", "]">> }

Closers == {<<>>, <<"FENCE">>}

Suffixes == {<<>>, <<"x">>, <<" ">>}

InitParse ==
    /\ quote_items = <<>>
    /\ row_order = <<>>
    /\ sort_by = "Order"
    /\ global_margin = 90
    /\ grid_df = <<>>
    /\ df_for_totals = <<>>
    /\ final_df = <<>>
    /\ quote_html = NoDocument
    /\ \E pre \in Prefixes, open \in Openers, g1 \in Gaps, body \in Bodies,
          g2 \in Gaps, close \in Closers, post \in Suffixes,
          kind \in {"file", "pasted"} :
          pass = [status |-> "running",
                  sources |-> << [name |-> IF kind = "file" THEN FileNames[1]
                                                            ELSE "Pasted Text",
                                  kind |-> kind,
                                  reply |-> Text(pre \o open \o g1 \o body \o g2
                                                 \o close \o post)] >>,
                  i |-> 1, all_new_items |-> <<>>, failed_files |-> <<>>,
                  calls |-> <<0>>, stages |-> <<>>]
    /\ last_op = [op |-> "init", from |-> "Order"]

NextParse ==
    \/ ProcessFile
    \/ ProcessPasted
    \/ FinishPass

SpecParse == InitParse /\ [][NextParse]_vars

-----------------------------------------------------------------------------
(* The cell values of the grid: a small collection, no sort, and every value *)
(* the grid accepts for DISC and MARGIN.                                     *)

ProcessBounded ==
    \E n \in 1..MaxNew : \E all_new_items \in [1..n -> ExtractPool] :
        /\ Len(quote_items) + n <= MaxEditRows
        /\ ProcessWith(all_new_items)

GridEditAny ==
    \E i \in 0..(MaxEditRows - 1), cell \in GridCells : GridEditAt(i, cell)

AddAboveBounded == Len(quote_items) < MaxEditRows /\ AddAbove

AddBelowBounded == Len(quote_items) < MaxEditRows /\ AddBelow

NextGrid ==
    \/ ProcessBounded
    \/ GridEditAny
    \/ AddAboveBounded
    \/ AddBelowBounded
    \/ ApplyMargin
    \/ ClearAll
    \/ Generate

SpecGrid == Init /\ [][NextGrid]_vars

-----------------------------------------------------------------------------
(* Views of the state *)

\* the rows as the row selector, the totals and the export order them
ManualDf == reorder_df(quote_items, row_order)

\* the rows as the grid shows them
ShownDf == display_df(quote_items, row_order, sort_by)

Sorted == sort_by \in {"Type", "Supplier"}

SortColumn(sort_option) == IF sort_option = "Type" THEN "TYPE" ELSE "Supplier"

Indices == 0..(MaxRows - 1)

\* the step is one of the event called name (every action records its event)
Does(name) == last_op'.op = name

-----------------------------------------------------------------------------
(* Insertion *)

\* C1: Add Row Above on manual position k leaves the fresh defaulted row at
\* manual position k, the selected row at k+1, and every other row with its
\* fields and its relative order.
C1_AddAboveAtSelected ==
    [][\A k \in Indices :
         Does("add_above") /\ AddAboveAt(k) =>
           ManualDf' = InsertAt(ManualDf, k, new_row(global_margin))]_vars

\* C2: Add Row Below on manual position k (any k) leaves the selected row at
\* manual position k, the fresh defaulted row at k+1, and every other row with
\* its fields and its relative order.
C2_AddBelowAtSelected ==
    [][\A k \in Indices :
         Does("add_below") /\ AddBelowAt(k) =>
           ManualDf' = InsertAt(ManualDf, k + 1, new_row(global_margin))]_vars

-----------------------------------------------------------------------------
(* Grid edit *)

\* C3: under Manual Order a grid edit of one cell leaves the manual order with
\* the same rows at the same positions, differing only in the edited cell.
C3_EditKeepsManualOrder ==
    [][\A i \in Indices, cell \in EditCells :
         (sort_by = "Manual Order" /\ Does("edit") /\ GridEditAt(i, cell)) =>
           ManualDf' = [ManualDf EXCEPT ![i + 1][cell[1]] = cell[2]]]_vars

-----------------------------------------------------------------------------
(* Append *)

\* C4: after an extraction pass the manual order is the manual order from
\* before the pass followed by the new rows in extraction order.
C4_AppendAtEndOfManualOrder ==
    [][\A n \in 1..MaxNew : \A all_new_items \in [1..n -> ExtractPool] :
         Does("process") /\ ProcessWith(all_new_items) =>
           ManualDf' = ManualDf
                       \o df_for_display(new_df(all_new_items, global_margin))]_vars

-----------------------------------------------------------------------------
(* Delete and move *)

\* C5: under Manual Order, Delete Selected Row on manual position k removes
\* exactly the row shown at k: the collection shrinks by one and the remaining
\* rows keep their fields and their relative manual order.
C5_DeleteRemovesSelected ==
    [][\A k \in Indices :
         (sort_by = "Manual Order" /\ Does("delete_row") /\ DeleteRowAt(k)) =>
           /\ ManualDf' = RemoveAt(ManualDf, k)
           /\ Len(quote_items') = Len(quote_items) - 1]_vars

\* a delete under Manual Order has acted on a collection whose manual order
\* was not the stored order, and rows remain
C5_Witness ==
    /\ last_op.op = "delete_row"
    /\ sort_by = "Manual Order"
    /\ Len(quote_items) = MaxRows - 1
    /\ row_order # Range0(Len(quote_items))

\* C6: Move Up on k > 0 (Move Down on k < last) swaps the row at k with its
\* neighbour in the manual order and changes nothing else; Move Up on 0 and
\* Move Down on the last index leave the stored rows and row_order unchanged.
C6_MoveSwapsNeighbours ==
    [][\A k \in Indices :
         /\ Does("move_up") /\ MoveUpAt(k) =>
              /\ quote_items' = quote_items
              /\ sort_by' = sort_by /\ global_margin' = global_margin
              /\ IF k > 0 THEN ManualDf' = Swap(ManualDf, k - 1, k)
                          ELSE row_order' = row_order
         /\ Does("move_down") /\ MoveDownAt(k) =>
              /\ quote_items' = quote_items
              /\ sort_by' = sort_by /\ global_margin' = global_margin
              /\ IF k < Len(row_order) - 1 THEN ManualDf' = Swap(ManualDf, k, k + 1)
                                           ELSE row_order' = row_order]_vars

\* a move has acted on a full collection of pairwise different rows and the
\* manual order is not the stored order
C6_Witness ==
    /\ last_op.op \in {"move_up", "move_down"}
    /\ Len(quote_items) = MaxRows
    /\ \A i, j \in 1..Len(quote_items) : i # j => quote_items[i] # quote_items[j]
    /\ row_order # Range0(Len(quote_items))

-----------------------------------------------------------------------------
(* Sorting *)

\* C7: selecting a sort option leaves the stored rows and row_order as they
\* are, so re-selecting Manual Order right after a sort shows the manual order
\* from before the sort.
C7_SortKeepsManualOrder ==
    [][\A opt \in SortOptions :
         Does("sort") /\ SelectSortTo(opt) =>
           /\ quote_items' = quote_items
           /\ row_order' = row_order
           /\ (opt = "Manual Order" => ShownDf' = ManualDf)]_vars

\* Manual Order was re-selected right after a sort whose grid showed another
\* order than the manual one
C7_Witness ==
    /\ last_op.op = "sort"
    /\ last_op.from \in {"Type", "Supplier"}
    /\ sort_by = "Manual Order"
    /\ row_order # Range0(Len(quote_items))
    /\ display_df(quote_items, row_order, last_op.from) # ManualDf

WithKey(df, col, v) == SelectSeq(df, LAMBDA r : r[col] = v)

\* shown is df in non-decreasing order of column col, rows of equal key in
\* the relative order they have in base
StableSortOf(shown, base, col) ==
    /\ Len(shown) = Len(base)
    /\ \A j \in 1..(Len(shown) - 1) :
           StrRank(shown[j][col]) <= StrRank(shown[j + 1][col])
    /\ \A v \in {base[j][col] : j \in 1..Len(base)} \cup
                {shown[j][col] : j \in 1..Len(shown)} :
           WithKey(shown, col, v) = WithKey(base, col, v)

\* C9 as claimed: the sorted grid is the collection in non-decreasing key
\* order, rows of equal key in the relative order of the manual order.
C9_StableInManualOrder ==
    Sorted => StableSortOf(ShownDf, ManualDf, SortColumn(sort_by))

\* C9 as amended: the sorted grid is the collection in non-decreasing key
\* order, rows of equal key in the relative order of the stored rows
\* (quote_items), which is the manual order only while row_order is 0..n-1.
C9_StableInStoredOrder ==
    Sorted => StableSortOf(ShownDf, quote_items, SortColumn(sort_by))

\* a sort is shown that moved rows, with two different rows of equal key whose
\* manual order is the reverse of their stored order
C9_Witness ==
    /\ Sorted
    /\ ShownDf # quote_items
    /\ ~ StableSortOf(ShownDf, ManualDf, SortColumn(sort_by))

-----------------------------------------------------------------------------
(* Pricing *)

ValidInputs(p) ==
    /\ p.COST_PER_UNIT >= 0
    /\ p.DISC >= 0 /\ p.DISC < 1000
    /\ p.MARGIN >= 0 /\ p.MARGIN < 1000
    /\ p.QTY >= 0

\* q is the quotient num / den floored to the cent
FlooredQuotient(q, num, den) == q * den <= num /\ num < (q + 1) * den

\* C10: for cost >= 0, 0 <= discount < 100, 0 <= margin < 100 and qty >= 0 the
\* priced row has unit = cost*(1-discount/100)/(1-margin/100), line = unit*qty,
\* tax = 10% of line and total = line + tax = 1.10*line; cost 100.00 at 10%
\* discount, 20% margin and qty 3 gives 112.50, 337.50, 33.75 and 371.25.
C10_PricingFormula ==
    \A j \in 1..Len(df_for_totals) :
        LET p == df_for_totals[j]
        IN  /\ ValidInputs(p) =>
                /\ FlooredQuotient(p.SELL_UNIT_EX_GST,
                                   p.COST_PER_UNIT * (1000 - p.DISC), 1000 - p.MARGIN)
                /\ p.SELL_TOTAL_EX_GST = p.SELL_UNIT_EX_GST * p.QTY
                /\ FlooredQuotient(p.GST_AMOUNT, p.SELL_TOTAL_EX_GST, 10)
                /\ p.SELL_TOTAL_INC_GST = p.SELL_TOTAL_EX_GST + p.GST_AMOUNT
                /\ FlooredQuotient(p.SELL_TOTAL_INC_GST, p.SELL_TOTAL_EX_GST * 11, 10)
            /\ (p.COST_PER_UNIT = 10000 /\ p.DISC = 100 /\ p.MARGIN = 200 /\ p.QTY = 3) =>
                /\ p.SELL_UNIT_EX_GST = 11250
                /\ p.SELL_TOTAL_EX_GST = 33750
                /\ p.GST_AMOUNT = 3375
                /\ p.SELL_TOTAL_INC_GST = 37125

\* the row of the scenario has been priced
C10_Witness ==
    /\ last_op.op = "rerun"
    /\ Len(df_for_totals) = 1
    /\ df_for_totals[1].COST_PER_UNIT = 10000
    /\ df_for_totals[1].DISC = 100
    /\ df_for_totals[1].MARGIN = 200
    /\ df_for_totals[1].QTY = 3

\* the inputs of the degenerate-margin case
Degenerate(p) ==
    /\ p.MARGIN >= 1000
    /\ p.COST_PER_UNIT >= 0
    /\ p.DISC >= 0 /\ p.DISC < 1000

\* the unit price is the discounted cost over 0.01, and not negative
ClampedUnit(p) ==
    /\ FlooredQuotient(p.SELL_UNIT_EX_GST, p.COST_PER_UNIT * (1000 - p.DISC), 10)
    /\ p.SELL_UNIT_EX_GST >= 0

\* C11: for a margin of 100% or more (divisor 1 - margin/100 <= 0), cost >= 0
\* and 0 <= discount < 100, the grid, the totals and the export each price the
\* row with a divisor of exactly 0.01: the unit price is the discounted cost
\* times 100, finite and not negative.
C11_DegenerateMarginClamped ==
    /\ \A j \in 1..Len(grid_df) :
           Degenerate(grid_df[j]) => ClampedUnit(grid_df[j])
    /\ \A j \in 1..Len(df_for_totals) :
           Degenerate(df_for_totals[j]) => ClampedUnit(df_for_totals[j])
    /\ \A j \in 1..Len(final_df) :
           Degenerate(final_df[j]) => ClampedUnit(final_df[j])

\* a row of positive cost with a margin of exactly 100% has been priced by the
\* grid, the totals and the export
C11_Witness ==
    /\ last_op.op = "generate"
    /\ Len(final_df) = 1 /\ Len(grid_df) = 1 /\ Len(df_for_totals) = 1
    /\ final_df[1].MARGIN = 1000
    /\ final_df[1].COST_PER_UNIT = 2599
    /\ final_df[1].DISC = 125
    /\ final_df[1].SELL_UNIT_EX_GST = 227412

\* C12: a row whose quantity is missing or not a number is priced with
\* quantity 1: its line sell price equals its unit sell price, in the grid and
\* in the totals.
C12_MissingQtyPricedAsOne ==
    [][Does("rerun") =>
         \A j \in 1..Len(ManualDf) :
             ManualDf[j].QTY = NaN =>
               /\ df_for_totals'[j].SELL_TOTAL_EX_GST = df_for_totals'[j].SELL_UNIT_EX_GST
               /\ grid_df'[j].SELL_TOTAL_EX_GST = grid_df'[j].SELL_UNIT_EX_GST]_vars

\* the priced frames of the last run: the grid, the totals and the export
PricedFrames == {grid_df, df_for_totals, final_df}

\* C13: in every reachable state, for every row, the discount and the margin
\* the pricing computation uses lie in [0, 100) and [0, 99.9], whatever was
\* written to the row by extraction, grid edit, insertion or Apply Margin.
C13_DiscountAndMarginClamped ==
    \A df \in PricedFrames : \A j \in 1..Len(df) :
        /\ df[j].DISC >= 0 /\ df[j].DISC < 1000
        /\ df[j].MARGIN >= 0 /\ df[j].MARGIN <= 999

-----------------------------------------------------------------------------
(* One pricing for the grid, the totals and the export *)

\* the number of rows of df equal to r
Count(df, r) == Cardinality({j \in 1..Len(df) : df[j] = r})

\* the columns of a priced row that the grid shows
GridColumns(p) ==
    [TYPE |-> p.TYPE, QTY |-> p.QTY, Supplier |-> p.Supplier,
     CAT_NO |-> p.CAT_NO, Description |-> p.Description,
     COST_PER_UNIT |-> p.COST_PER_UNIT, DISC |-> p.DISC, MARGIN |-> p.MARGIN,
     SELL_UNIT_EX_GST |-> p.SELL_UNIT_EX_GST,
     SELL_TOTAL_EX_GST |-> p.SELL_TOTAL_EX_GST]

RECURSIVE SumOf(_, _)
SumOf(df, col) == IF df = <<>> THEN 0 ELSE Head(df)[col] + SumOf(Tail(df), col)

\* C14: in every reachable state the grid, the Quote Totals and the export
\* price the same rows alike: every row has the same unit and line sell price
\* in the grid as in the totals, the export's rows and sub-total, GST and
\* grand total are those of the Quote Totals, and in both the grand total is
\* the sub-total plus the GST.
C14_OnePricingEverywhere ==
    LET shown == [j \in 1..Len(df_for_totals) |-> GridColumns(df_for_totals[j])]
    IN  /\ Len(grid_df) = Len(df_for_totals)
        /\ \A j \in 1..Len(grid_df) :
               Count(grid_df, grid_df[j]) = Count(shown, grid_df[j])
        /\ SumOf(df_for_totals, "SELL_TOTAL_INC_GST")
             = SumOf(df_for_totals, "SELL_TOTAL_EX_GST")
               + SumOf(df_for_totals, "GST_AMOUNT")
        /\ final_df # <<>> =>
               /\ final_df = df_for_totals
               /\ \A col \in {"SELL_TOTAL_EX_GST", "GST_AMOUNT", "SELL_TOTAL_INC_GST"} :
                      SumOf(final_df, col) = SumOf(df_for_totals, col)
               /\ SumOf(final_df, "SELL_TOTAL_INC_GST")
                    = SumOf(final_df, "SELL_TOTAL_EX_GST") + SumOf(final_df, "GST_AMOUNT")

\* a document has been priced while the sorted grid showed a full collection
\* in another order than the manual one, with a discounted row among them
C14_Witness ==
    /\ last_op.op = "generate"
    /\ final_df # <<>>
    /\ Sorted
    /\ Len(quote_items) = MaxRows
    /\ ShownDf # ManualDf
    /\ \E j \in 1..Len(final_df) :
           final_df[j].DISC = 100 /\ final_df[j].SELL_TOTAL_EX_GST > 0

-----------------------------------------------------------------------------
(* The normalizer *)

\* the fenced block of the text holds an array
FenceRecovers(text) ==
    /\ re_search(text).found
    /\ json_loads(Strip(re_search(text).group1)).ok

\* the text from its first "[" to its last "]"
BracketSlice(text) ==
    LET opens  == {k \in 1..Len(text) : text[k] = "["}
        closes == {k \in 1..Len(text) : text[k] = "]"}
    IN  IF opens = {} \/ closes = {} THEN <<>>
        ELSE SubSeq(text, Min(opens), Max(closes))

\* neither the direct parse nor the fenced block gives an array, the text
\* between the outermost brackets does
ThirdStageOnly(text) ==
    /\ ~ json_loads(text).ok
    /\ ~ FenceRecovers(text)
    /\ json_loads(BracketSlice(text)).ok

\* the sources the pass has been through
Processed == SubSeq(pass.sources, 1, pass.i - 1)

InPass == pass.status \in {"running", "done"}

\* C15: a response that is not JSON and has no recoverable fenced block, but
\* whose text from the first "[" to the last "]" is an array, yields the rows
\* of that array, and its source is not put on the failed list.
C15_ThirdStageRecovers ==
    InPass =>
      \A k \in 1..Len(Processed) :
          LET src == Processed[k]
          IN  (~ src.reply.raises /\ ThirdStageOnly(src.reply.text)) =>
                /\ \A f \in 1..Len(pass.failed_files) : pass.failed_files[f] # src.name
                /\ Len(pass.sources) = 1 =>
                      pass.all_new_items = json_loads(BracketSlice(src.reply.text)).value

\* the bodies that are arrays
ValidArrays == {b \in Bodies : json_loads(b).ok}

\* C16: a response that is one valid array inside one json fence yields the
\* rows the same array yields without the fence and is not marked failed; the
\* fenced block is looked for only after the direct parse has failed.
C16_FencedEqualsUnfenced ==
    (InPass /\ pass.i = 2) =>
      LET text == pass.sources[1].reply.text
      IN  /\ \A array \in ValidArrays, g1 \in Gaps, g2 \in Gaps :
                 text = <<"FENCE_JSON">> \o g1 \o array \o g2 \o <<"FENCE">> =>
                   /\ pass.failed_files = <<>>
                   /\ pass.all_new_items = parse_response(array).extracted_data
                   /\ pass.stages = <<"direct", "fenced">>
          /\ pass.stages # <<>> /\ pass.stages[1] = "direct"
          /\ (\E j \in 1..Len(pass.stages) : pass.stages[j] = "fenced") =>
                 ~ json_loads(text).ok

\* a pass is over whose one response was a fenced array of two objects, white
\* space inside the fence, and both rows are in the collection
C16_Witness ==
    /\ pass.status = "done"
    /\ pass.sources[1].reply.text
         = <<"FENCE_JSON", " ", "[", "o1", ",", "o2", "]", " ", "FENCE">>
    /\ Len(quote_items) = 2

-----------------------------------------------------------------------------
(* The pass over the sources *)

\* the call of the service raised, or every parse attempt failed
Fails(src) ==
    \/ src.reply.raises
    \/ (~ json_loads(src.reply.text).ok /\ ~ FenceRecovers(src.reply.text))

RowsOfSource(src) ==
    IF Fails(src) THEN <<>>
    ELSE IF json_loads(src.reply.text).ok THEN json_loads(src.reply.text).value
    ELSE json_loads(Strip(re_search(src.reply.text).group1)).value

RECURSIVE RowsFrom(_)
RowsFrom(sources) ==
    IF sources = <<>> THEN <<>>
    ELSE RowsOfSource(Head(sources)) \o RowsFrom(Tail(sources))

NamesOf(sources) == [k \in 1..Len(sources) |-> sources[k].name]

\* C17: a source whose every parse attempt fails contributes no rows and has
\* its identifier (file name, or "Pasted Text") on the failed list; the sources
\* after it are still processed; the failed list holds exactly the sources
\* that failed, each once.
C17_FailedSourcesRecorded ==
    InPass =>
      /\ pass.failed_files = NamesOf(SelectSeq(Processed, Fails))
      /\ pass.all_new_items = RowsFrom(Processed)
      /\ pass.status = "done" => pass.i = Len(pass.sources) + 1

\* a pass of two files and a pasted text is over: the first file and the
\* pasted text could not be parsed, the second file gave a row
C17_Witness ==
    /\ pass.status = "done"
    /\ Len(pass.sources) = 3
    /\ ~ pass.sources[1].reply.raises /\ Fails(pass.sources[1])
    /\ ~ Fails(pass.sources[2])
    /\ ~ pass.sources[3].reply.raises /\ Fails(pass.sources[3])
    /\ pass.failed_files = <<"a.pdf", "Pasted Text">>
    /\ Len(quote_items) = 1

\* C18: when the service call for a source raises, the error stays inside
\* the pass: the source is recorded as failed under its identifier, every
\* source is called exactly once, the pass goes on to the remaining sources,
\* and its end appends the rows of the sources that succeeded.
C18_ServiceErrorContained ==
    /\ pass.status \in {"idle", "running", "done"}
    /\ InPass =>
         /\ \A k \in 1..Len(pass.sources) :
                pass.calls[k] = (IF k < pass.i THEN 1 ELSE 0)
         /\ \A k \in 1..Len(Processed) :
                Processed[k].reply.raises =>
                  \E f \in 1..Len(pass.failed_files) :
                      pass.failed_files[f] = Processed[k].name
         /\ pass.status = "done" =>
                LET rows == df_for_display(new_df(RowsFrom(pass.sources), global_margin))
                    n    == Len(rows)
                    len  == Len(quote_items)
                IN  /\ pass.i = Len(pass.sources) + 1
                    /\ len >= n
                    /\ SubSeq(quote_items, len - n + 1, len) = rows

\* a pass is over in which the call for the first file raised and the second
\* file gave a row
C18_Witness ==
    /\ pass.status = "done"
    /\ Len(pass.sources) >= 2
    /\ pass.sources[1].reply.raises
    /\ ~ Fails(pass.sources[2])
    /\ pass.failed_files = <<"a.pdf">>
    /\ quote_items # <<>>
    /\ last_op.op = "process"

\* C19: while a pass is under way the collection stays as it was and the rows
\* held back for it are the whole responses of the sources that succeeded;
\* the end of the pass puts all of them behind the rows of the collection, so
\* no source ever has part of its rows in the collection.
C19_CollectionChangesOnlyAtEnd ==
    [][/\ pass'.status = "running" =>
            /\ quote_items' = quote_items
            /\ pass'.all_new_items
                 = RowsFrom(SubSeq(pass'.sources, 1, pass'.i - 1))
       /\ (pass.status = "running" /\ pass'.status # "running") =>
            quote_items' = quote_items
                           \o df_for_display(new_df(RowsFrom(pass.sources),
                                                    global_margin))]_vars

\* a second pass is under way: rows of an earlier pass are in the collection,
\* a source of this pass has failed and another has given a row that is held
\* back
C19_Witness ==
    /\ pass.status = "running"
    /\ pass.i = 3
    /\ quote_items # <<>>
    /\ pass.all_new_items # <<>>
    /\ pass.failed_files # <<>>

-----------------------------------------------------------------------------
(* The stamp of the extraction pass *)

\* C20: every row an extraction pass appends has discount 0.0 and the global
\* margin of the session at the time of the pass, and every row that was in
\* the collection before the pass is in it afterwards with its discount and
\* margin (and other fields) as they were.
C20_AppendStampsDefaults ==
    [][\A n \in 1..MaxNew : \A all_new_items \in [1..n -> ExtractPool] :
         Does("process") /\ ProcessWith(all_new_items) =>
           /\ Len(quote_items') = Len(quote_items) + n
           /\ \A j \in 1..Len(quote_items) :
                  Count(quote_items', quote_items[j])
                    >= Count(quote_items, quote_items[j])
           /\ \A j \in 1..Len(quote_items') :
                  Count(quote_items', quote_items'[j])
                    > Count(quote_items, quote_items'[j]) =>
                      /\ quote_items'[j].DISC = 0
                      /\ quote_items'[j].MARGIN = global_margin]_vars

\* a pass has appended a row at a global margin other than the widget's
\* default to a row whose discount and margin had been edited in the grid
C20_Witness ==
    /\ last_op.op = "process"
    /\ global_margin = 200
    /\ Len(quote_items) = 2
    /\ quote_items[1].DISC = 1500 /\ quote_items[1].MARGIN = 999
    /\ quote_items[2].DISC = 0 /\ quote_items[2].MARGIN = 200

-----------------------------------------------------------------------------
(* Apply Margin *)

\* C21: Apply Margin with value v sets the margin of every row to v and
\* changes no other field, no row count, row_order or sort option; the totals
\* are then those of the rows priced at margin v; applying the same v a second
\* time leaves the rows, the order, the grid and the totals as they are.
C21_ApplyMarginSetsEveryRow ==
    [][Does("apply_margin") =>
         LET v      == global_margin'
             with_v == [j \in 1..Len(quote_items) |->
                          [quote_items[j] EXCEPT !.MARGIN = v]]
         IN  /\ quote_items' = with_v
             /\ row_order' = row_order
             /\ sort_by' = sort_by
             /\ Len(df_for_totals') = Len(quote_items)
             /\ \A j \in 1..Len(df_for_totals') :
                    df_for_totals'[j] = PriceRow(with_v[row_order[j] + 1])
             /\ (last_op.op = "apply_margin" /\ global_margin = v) =>
                    /\ quote_items' = quote_items
                    /\ grid_df' = grid_df
                    /\ df_for_totals' = df_for_totals]_vars

\* a margin other than the default has been applied to a full collection shown
\* sorted, whose manual order is not the stored order and which holds a row
\* with an edited discount
C21_Witness ==
    /\ last_op.op = "apply_margin"
    /\ global_margin = 200
    /\ Len(quote_items) = MaxRows
    /\ Sorted
    /\ row_order # Range0(Len(quote_items))
    /\ \A j \in 1..Len(quote_items) : quote_items[j].MARGIN = 200
    /\ \E j \in 1..Len(quote_items) : quote_items[j].DISC = 100

-----------------------------------------------------------------------------
(* A pass that is abandoned: the script run of the pass is stopped before it *)
(* reaches line 375 (the user acts on another widget, or the session ends);  *)
(* the locals of the run are dropped and the session state is what the run   *)
(* had stored.  pass keeps the locals as they were at that point.            *)

AbandonPass ==
    /\ pass.status = "running"
    /\ pass' = [pass EXCEPT !.status = "abandoned"]
    /\ Rest(quote_items, row_order, sort_by, global_margin, Did("abandon"))

NextAbandon ==
    \/ StartPass
    \/ ProcessFile
    \/ ProcessPasted
    \/ FinishPass
    \/ AbandonPass

SpecAbandon == Init /\ [][NextAbandon]_vars

\* C22: when a pass over several sources is abandoned after some sources have
\* been normalized and before the others are processed, the rows of the
\* normalized sources are in the collection, behind the rows it held before.
C22_AbandonKeepsNormalizedRows ==
    (pass.status = "abandoned" /\ Len(pass.sources) > 1) =>
        LET rows == df_for_display(new_df(RowsFrom(Processed), global_margin))
            n    == Len(rows)
            len  == Len(quote_items)
        IN  /\ len >= n
            /\ SubSeq(quote_items, len - n + 1, len) = rows

-----------------------------------------------------------------------------
(* The calls of a pass *)

\* the step is a turn of the pass: the call of the service for source
\* pass.i and the parse of its answer
CallStep ==
    /\ pass.status \in {"running", "paused"}
    /\ pass'.i = pass.i + 1
    /\ pass'.calls[pass.i] = pass.calls[pass.i] + 1

\* C23: the sources are processed one after the other, so no step of a pass
\* has more than one call under way, and a pause lies between the end of one
\* call and the start of the next: the call for every source but the first
\* starts from a pass that has paused.
C23_PauseBetweenCalls ==
    [][/\ pass'.status = "running" /\ pass.status = "running" =>
            Cardinality({k \in 1..Len(pass.sources) :
                           pass'.calls[k] # pass.calls[k]}) <= 1
       /\ (CallStep /\ pass.i > 1) => pass.status = "paused"]_vars

-----------------------------------------------------------------------------
(* The shape of the rows: the objects of a response are whatever the service *)
(* wrote; besides the objects of the schema the pool holds one without       *)
(* CAT_NO, one with a key the schema does not have and one whose cost is a   *)
(* text ("POA").  The grid lets the user clear a numeric cell.               *)

LoosePool ==
    ExtractPool \cup
    { [TYPE |-> "A", QTY |-> 1, Supplier |-> "X", Description |-> "D3",
       COST_PER_UNIT |-> 2599],
      [TYPE |-> "B", QTY |-> 1, Supplier |-> "X", CAT_NO |-> "C4",
       Description |-> "D4", COST_PER_UNIT |-> 10000, NOTES |-> "N"],
      [TYPE |-> "B", QTY |-> 1, Supplier |-> "X", CAT_NO |-> "C5",
       Description |-> "D5", COST_PER_UNIT |-> Unparseable] }

ProcessLoose ==
    \E n \in 1..MaxNew : \E all_new_items \in [1..n -> LoosePool] :
        /\ Len(quote_items) + n <= MaxEditRows
        /\ ProcessWith(all_new_items)

\* the numeric cells the user can clear in the grid
ClearedCells == { <<"COST_PER_UNIT", NaN>>, <<"DISC", NaN>>, <<"MARGIN", NaN>> }

GridClearCell ==
    \E i \in 0..(MaxEditRows - 1), cell \in ClearedCells : GridEditAt(i, cell)

NextShape ==
    \/ ProcessLoose
    \/ GridClearCell
    \/ ApplyMargin
    \/ Generate

SpecShape == Init /\ [][NextShape]_vars

TextColumns == quote_columns \ NumericColumns

\* C24: every object parsed from a response enters the collection in the
\* canonical shape: its row has exactly the columns TYPE, QTY, Supplier,
\* CAT_NO, Description, COST_PER_UNIT, DISC and MARGIN, a text column the
\* object lacks is the empty string, and a key the schema does not have is
\* dropped.
C24_CanonicalShape ==
    [][\A n \in 1..MaxNew : \A all_new_items \in [1..n -> LoosePool] :
         Does("process") /\ ProcessWith(all_new_items) =>
           \A k \in 1..n :
               LET row == quote_items'[Len(quote_items) + k]
               IN  /\ DOMAIN row = quote_columns
                   /\ \A c \in TextColumns :
                          row[c] = (IF c \in DOMAIN all_new_items[k]
                                    THEN all_new_items[k][c] ELSE "")]_vars

-----------------------------------------------------------------------------
(* Missing and invalid numbers *)

\* the value with missing or invalid taken as 0
OrZero(v) == IF v \in {NaN, Unparseable} THEN 0 ELSE v

\* the unit price of a row whose missing or invalid cells count as 0
UnitOrZero(cost, disc, margin) ==
    (OrZero(cost) * (1000 - OrZero(disc)))
        \div (IF 1000 - OrZero(margin) <= 0 THEN 10 ELSE 1000 - OrZero(margin))

\* p is the pricing of the row r of the given cost, discount and margin
PricedOrZero(p, r, cost, disc, margin) ==
    /\ \A c \in TextColumns : p[c] = r[c]
    /\ p.COST_PER_UNIT = OrZero(cost)
    /\ p.DISC = OrZero(disc)
    /\ p.MARGIN = OrZero(margin)
    /\ p.SELL_UNIT_EX_GST \in Int
    /\ p.SELL_UNIT_EX_GST = UnitOrZero(cost, disc, margin)
    /\ p.SELL_TOTAL_EX_GST = p.SELL_UNIT_EX_GST * p.QTY

\* C25: a row whose cost, discount or margin is missing or is no number is
\* priced with that value taken as 0, and the run prices every row: the grid
\* and the totals hold a priced row for each stored row, both after a pass
\* that appends such a row and after the user clears a numeric cell.
C25_MissingPricedAsZero ==
    [][/\ \A n \in 1..MaxNew : \A all_new_items \in [1..n -> LoosePool] :
            Does("process") /\ ProcessWith(all_new_items) =>
              /\ Len(grid_df') = Len(quote_items) + n
              /\ Len(df_for_totals') = Len(quote_items) + n
              /\ \A k \in 1..n : \A df \in {grid_df', df_for_totals'} :
                     PricedOrZero(df[Len(quote_items) + k],
                                  quote_items'[Len(quote_items) + k],
                                  all_new_items[k].COST_PER_UNIT, 0, global_margin)
       /\ \A i \in 0..(MaxEditRows - 1), cell \in ClearedCells :
            Does("edit") /\ GridEditAt(i, cell) =>
              LET r == ManualDf[i + 1]
                  e == [r EXCEPT ![cell[1]] = NaN]
              IN  /\ Len(grid_df') = Len(quote_items)
                  /\ Len(df_for_totals') = Len(quote_items)
                  /\ \E j \in 1..Len(grid_df') : \A df \in {grid_df', df_for_totals'} :
                         PricedOrZero(df[j], r, e.COST_PER_UNIT, e.DISC, e.MARGIN)]_vars

\* the collection holds a row whose cost was a text and is priced at 0, and
\* the margin cell of another row has just been cleared: it is priced at its
\* cost
C25_Witness ==
    /\ last_op.op = "edit"
    /\ Len(df_for_totals) = 2
    /\ \E j, k \in 1..2 :
           /\ df_for_totals[j].Description = "D5"
           /\ df_for_totals[j].COST_PER_UNIT = 0
           /\ df_for_totals[j].SELL_UNIT_EX_GST = 0
           /\ df_for_totals[k].Description = "D1"
           /\ df_for_totals[k].MARGIN = 0
           /\ df_for_totals[k].SELL_UNIT_EX_GST = 10000

-----------------------------------------------------------------------------
(* What the document shows *)

\* the columns of a table row of the document
ClientColumns == {"no", "TYPE", "QTY", "Supplier", "CAT_NO", "Description"}

\* C26: the document handed to the renderer holds, for each row, only the item
\* number, type, quantity, supplier, catalogue number and description, and
\* besides the rows only the sub-total, the GST and the grand total (those of
\* the Quote Totals): no cost, discount, margin, row price or total cost
\* before margin is part of it.
C26_DocumentHidesInternals ==
    quote_html.rendered =>
        /\ DOMAIN quote_html
             = {"rendered", "items", "pdf_subtotal", "pdf_gst", "pdf_grand_total"}
        /\ Len(quote_html.items) = Len(quote_items)
        /\ \A j \in 1..Len(quote_html.items) :
               /\ DOMAIN quote_html.items[j] = ClientColumns
               /\ quote_html.items[j].no = j
               /\ \A c \in ClientColumns \ {"no"} :
                      quote_html.items[j][c] = df_for_totals[j][c]
        /\ quote_html.pdf_subtotal
             = format_currency(SumOf(df_for_totals, "SELL_TOTAL_EX_GST"))
        /\ quote_html.pdf_gst = format_currency(SumOf(df_for_totals, "GST_AMOUNT"))
        /\ quote_html.pdf_grand_total
             = format_currency(SumOf(df_for_totals, "SELL_TOTAL_INC_GST"))

\* a document has been written for two rows, one of them with a discount and
\* a margin set in the grid and a positive price
C26_Witness ==
    /\ last_op.op = "generate"
    /\ quote_html.rendered
    /\ Len(quote_html.items) = 2
    /\ \E j \in 1..Len(final_df) :
           /\ final_df[j].DISC = -50
           /\ final_df[j].MARGIN = 999
           /\ final_df[j].SELL_TOTAL_EX_GST > 0
    /\ quote_html.pdf_subtotal.dollars > 0

-----------------------------------------------------------------------------
(* Rows added and deleted in the grid (num_rows="dynamic"): the data editor  *)
(* returns the frame it was given with one more row, whose cells are None    *)
(* but for the one the user typed in, or with one row less.                  *)

\* the row the grid adds: the user typed the description, or another cell
added_row(description) ==
    [TYPE |-> NaNText, QTY |-> NaN, Supplier |-> NaNText, CAT_NO |-> NaNText,
     Description |-> description, COST_PER_UNIT |-> NaN, DISC |-> NaN,
     MARGIN |-> NaN]

AddedDescriptions == {NaNText, "D9"}

GridAddRowWith(description) ==
    /\ quote_items # <<>>
    /\ Len(quote_items) < MaxRows
    /\ LET shown == df_for_display(display_df(quote_items, row_order, sort_by))
           wb    == WriteBack(quote_items, row_order, sort_by,
                              shown \o <<added_row(description)>>)
       IN  Settle(wb.quote_items, wb.row_order, sort_by, global_margin,
                  Did("grid_add"))

GridAddRow == \E description \in AddedDescriptions : GridAddRowWith(description)

GridDeleteRowAt(i) ==
    /\ i \in 0..(Len(quote_items) - 1)
    /\ LET shown == df_for_display(display_df(quote_items, row_order, sort_by))
           wb    == WriteBack(quote_items, row_order, sort_by, RemoveAt(shown, i))
       IN  Settle(wb.quote_items, wb.row_order, sort_by, global_margin,
                  Did("grid_delete"))

GridDeleteRow == \E i \in 0..(MaxRows - 1) : GridDeleteRowAt(i)

\* the details form submitted with the Global Margin input left as it is
ApplyMarginAsIs ==
    Settle(apply_margin(quote_items, global_margin), row_order, sort_by,
           global_margin, Did("apply_margin"))

ClearAllAsIs == Settle(<<>>, <<>>, sort_by, global_margin, Did("clear_all"))

\* the cell edit of this specification: a quantity set to 0
GridEditQty == \E i \in 0..(MaxRows - 1) : GridEditAt(i, <<"QTY", 0>>)

NextOrder ==
    \/ Process
    \/ MoveUp
    \/ MoveDown
    \/ SelectSort
    \/ GridEditQty
    \/ GridAddRow
    \/ GridDeleteRow
    \/ DeleteRow
    \/ AddAbove
    \/ AddBelow
    \/ ApplyMarginAsIs
    \/ ClearAllAsIs
    \/ Generate

SpecOrder == Init /\ [][NextOrder]_vars

\* ro holds every label 0..n-1 once
IsPermutation(ro, n) ==
    /\ Len(ro) = n
    /\ \A label \in 0..(n - 1) : Cardinality({j \in 1..n : ro[j] = label}) = 1

\* C27: whenever the grid, the row selector, the totals or the document are
\* computed (the collection is not empty), row_order is a permutation of
\* 0..n-1, n the number of stored rows, after any sequence of append, cell
\* edit, row added or deleted in the grid, insert, delete, move, sort
\* selection, Apply Margin and Clear All.
C27_RowOrderIsPermutation ==
    quote_items # <<>> => IsPermutation(row_order, Len(quote_items))

\* a row has been deleted in the grid, under Manual Order, from a full
\* collection that held a row added in the grid and a row added by the row
\* buttons; the selector and the totals are computed
C27_Witness ==
    /\ last_op.op = "grid_delete"
    /\ sort_by = "Manual Order"
    /\ Len(quote_items) = MaxRows - 1
    /\ Len(df_for_totals) = MaxRows - 1
    /\ \E j \in 1..Len(quote_items) : quote_items[j].Description = "D9"
    /\ \E j \in 1..Len(quote_items) : quote_items[j] = new_row(global_margin)

-----------------------------------------------------------------------------
(* A grid edit under a sort *)

\* C28: a grid edit written back while the grid is sorted by Type or Supplier
\* stores the edited rows in the sorted order shown and resets row_order to
\* 0..n-1, so that Manual Order then shows that sorted order; a selection of
\* the sort radio alone keeps the stored rows and row_order, so that Manual
\* Order re-selected with no edit in between shows the earlier manual order.
C28_SortedEditFreezesOrder ==
    [][/\ \A k \in Indices, cell \in EditCells :
            (Sorted /\ Does("edit") /\ GridEditAt(k, cell)) =>
              LET edited == [ShownDf EXCEPT ![k + 1][cell[1]] = cell[2]]
              IN  /\ quote_items' = edited
                  /\ row_order' = Range0(Len(edited))
                  /\ display_df(quote_items', row_order', "Manual Order") = edited
       /\ \A opt \in SortOptions :
            (Does("sort") /\ SelectSortTo(opt)) =>
              /\ reorder_df(quote_items', row_order') = ManualDf
              /\ (opt = "Manual Order" /\ Sorted) => ShownDf' = ManualDf]_vars

\* a cell has been edited while the grid was sorted by Type: the stored rows
\* are a full collection in Type order, of more than one type, and row_order
\* is 0..n-1
C28_Witness ==
    /\ last_op = [op |-> "edit", from |-> "Type"]
    /\ sort_by = "Type"
    /\ Len(quote_items) = MaxRows
    /\ quote_items[1].TYPE # quote_items[MaxRows].TYPE
    /\ quote_items = sort_values(quote_items, "TYPE")
    /\ row_order = Range0(MaxRows)
    /\ \E j \in 1..MaxRows : quote_items[j].DISC = 100

-----------------------------------------------------------------------------
(* The order of the totals and of the document *)

\* the columns of a stored row that a priced row repeats (numbers coerced)
StoredColumns(p) ==
    [TYPE |-> p.TYPE, QTY |-> p.QTY, Supplier |-> p.Supplier,
     CAT_NO |-> p.CAT_NO, Description |-> p.Description,
     COST_PER_UNIT |-> p.COST_PER_UNIT, DISC |-> p.DISC, MARGIN |-> p.MARGIN]

\* C29: whatever sort option the grid shows, the Quote Totals and the export
\* are computed over the rows in manual order (the stored rows permuted by
\* row_order): the rows of the document are the rows that Manual Order
\* displays in the same state, in that sequence, numbered 1..n.
C29_ExportInManualOrder ==
    /\ Len(df_for_totals) = Len(ManualDf)
    /\ \A j \in 1..Len(df_for_totals) :
           StoredColumns(df_for_totals[j]) = ManualDf[j]
    /\ quote_html.rendered =>
           /\ Len(final_df) = Len(ManualDf)
           /\ Len(quote_html.items) = Len(ManualDf)
           /\ \A j \in 1..Len(ManualDf) :
                  LET shown == display_df(quote_items, row_order, "Manual Order")[j]
                  IN  /\ StoredColumns(final_df[j]) = shown
                      /\ quote_html.items[j].no = j
                      /\ \A c \in ClientColumns \ {"no"} :
                             quote_html.items[j][c] = shown[c]

\* a document has been written while the grid was sorted and showed a full
\* collection of pairwise different rows in another order than the manual one
C29_Witness ==
    /\ quote_html.rendered
    /\ Sorted
    /\ Len(quote_html.items) = MaxRows
    /\ ShownDf # ManualDf
    /\ row_order # Range0(MaxRows)
    /\ \A i, j \in 1..MaxRows :
           i # j => quote_html.items[i].CAT_NO # quote_html.items[j].CAT_NO

=============================================================================
